---------------------------- MODULE Spec2Model ----------------------------
(***************************************************************************)
(* A model of factomd's p2p envelope (Parcel), its gob transport (Wire)    *)
(* and two message variants (RemoveServerMsg, MsgReject).                  *)
(*                                                                         *)
(* Conventions                                                             *)
(*   - A fixed-width unsigned integer (uint16, uint32, uint64) is kept as  *)
(*     its big-endian byte tuple, so 32- and 64-bit values never leave the *)
(*     range of TLC's integers.                                            *)
(*   - A Go slice is a record [b, n]: b holds the backing array from the   *)
(*     slice's first element to the array's end (Len(b) is cap), n is len. *)
(*   - A panic is an outcome ("panic"), distinct from a returned error.    *)
(***************************************************************************)
EXTENDS Integers, Sequences, FiniteSets, TLC

VARIABLES
    \* ---- Parcel codec (p2p/parcel.go) ----
    stage,      \* position of the codec scenario: "built", "encoded", "decoded"
    parcel,     \* the Parcel being built and encoded
    data,       \* the encoded buffer, a slice
    tamper,     \* what happened to the buffer after encoding
    dec,        \* outcome of Parcel.UnmarshalBinaryData on data
    \* ---- Wire (p2p/wire.go) ----
    conn,       \* Wire.conn: "nil", "open" or "closed"
    encoder,    \* Wire.encoder # nil
    decoder,    \* Wire.decoder # nil
    Writes,     \* package counter: bytes written
    WritesErr,  \* package counter: failed writes
    Reads,      \* package counter: bytes read
    ReadsErr,   \* package counter: failed reads
    wcalls,     \* number of Send and Receive calls made so far
    wlast,      \* the call that ended last, and how it ended
    \* ---- messages (common/messages) ----
    phase,      \* "live", "encoded", "decoded"
    msg,        \* the message instance: a RemoveServerMsg or a MsgReject
    edited,     \* a field of msg was assigned after construction
    prev,       \* msg as it was before the last call on it
    mlast,      \* the last call on msg, its arguments and its result
    mbuf,       \* the buffer MarshalBinary returned, possibly relabelled
    mdec,       \* the decoder applied to mbuf and its outcome
    \* ---- State (state/state.go) ----
    state,      \* the State struct: network, servers, height, head block
    queues,     \* the six message queues: each channel's capacity and buffer
    pending,    \* per queue, the messages of the sends blocked on it, in order
    pushed,     \* number of sends started so far
    slast       \* the last call on the State, the height before it, its result

pvars == <<stage, parcel, data, tamper, dec>>

wvars == <<conn, encoder, decoder, Writes, WritesErr, Reads, ReadsErr, wcalls, wlast>>

mvars == <<phase, msg, edited, prev, mlast, mbuf, mdec>>

svars == <<state, queues, pending, pushed, slast>>

vars == <<pvars, wvars, mvars, svars>>

\* what the Parcel scenario leaves alone
notParcel == <<wvars, mvars, svars>>

\* what the Wire scenario leaves alone
notWire == <<pvars, mvars, svars>>

\* what the State scenarios leave alone
notState == <<pvars, wvars, mvars>>

\* what the message scenario leaves alone
notMsg == <<pvars, wvars, svars>>

-----------------------------------------------------------------------------
(* Bounds of the model *)

\* longest payload handed to NewParcel / assigned to Parcel.Payload
MaxPayloadLen == 2
\* longest target-peer / peer-address / peer-port string
MaxStrLen == 1
\* Send and Receive calls made on one Wire
MaxCalls == 3
\* ledger heights range over 0..MaxHeight
MaxHeight == 2
\* capacity the six queues are checked with (State.Init makes them with 10000)
QueueCapacity == 2
\* signing keys
NumKeys == 2

-----------------------------------------------------------------------------
(* Bytes and fixed-width integers *)

\* binary.Write(&buf, binary.BigEndian, uint32(n)) for n < 2^31
BE32(n) == <<(n \div 16777216) % 256, (n \div 65536) % 256, (n \div 256) % 256, n % 256>>

\* binary.Write(&buf, binary.BigEndian, uint16(n))
BE16(n) == <<(n \div 256) % 256, n % 256>>

\* binary.Write(&buf, binary.BigEndian, uint64(n)) for n < 2^31
BE64(n) == <<0, 0, 0, 0>> \o BE32(n)

\* A number larger than every capacity of the model: the value of a uint32
\* whose top byte is set, as far as bounds checks are concerned.
Huge == 16777216

\* int(binary.BigEndian.Uint32(b)), saturated at Huge
IntOf(b) == IF b[1] # 0 THEN Huge ELSE b[2] * 65536 + b[3] * 256 + b[4]

-----------------------------------------------------------------------------
(* Go slices *)

MkSlice(bytes, extra) == [b |-> bytes \o [i \in 1..extra |-> 0], n |-> Len(bytes)]

\* the bytes a slice shows: s[0:len(s)]
BytesOf(s) == SubSeq(s.b, 1, s.n)

PanicSlice == [ok |-> FALSE, b |-> <<>>, n |-> 0]

OkSlice(s) == [ok |-> TRUE, b |-> s.b, n |-> s.n]

\* s[k:] : panics when k > len(s)
SliceFrom(s, k) ==
    IF s.ok /\ k <= s.n
    THEN [ok |-> TRUE, b |-> SubSeq(s.b, k + 1, Len(s.b)), n |-> s.n - k]
    ELSE PanicSlice

\* s[:k] : panics when k > cap(s); may show bytes past len(s)
SliceTo(s, k) ==
    IF s.ok /\ k <= Len(s.b)
    THEN [ok |-> TRUE, b |-> s.b, n |-> k]
    ELSE PanicSlice

-----------------------------------------------------------------------------
(* crc32.Checksum(payload, CRCKoopmanTable), bit-serial, on 16-bit halves *)

\* crc32.Koopman = 0xeb31d82e (reversed representation), upper and lower half
KoopmanHi == 60209
KoopmanLo == 55342

RECURSIVE XorN(_, _, _)
XorN(a, b, k) ==
    IF k = 0 THEN 0 ELSE ((a + b) % 2) + 2 * XorN(a \div 2, b \div 2, k - 1)

Xor16(a, b) == XorN(a, b, 16)

\* one step of the bit-serial division: shift right, subtract the polynomial
CrcBit(c) ==
    LET sh == <<c[1] \div 2, (c[2] \div 2) + (c[1] % 2) * 32768>>
    IN  IF c[2] % 2 = 1
        THEN <<Xor16(sh[1], KoopmanHi), Xor16(sh[2], KoopmanLo)>>
        ELSE sh

RECURSIVE CrcBits(_, _)
CrcBits(c, k) ==
    IF k = 0 THEN c
    ELSE LET s == CrcBit(c) IN IF s[1] >= 0 THEN CrcBits(s, k - 1) ELSE s

\* crc32.MakeTable(crc32.Koopman)
CRCKoopmanTable == [v \in 0..255 |-> CrcBits(<<0, v>>, 8)]

\* crc = tab[byte(crc) ^ v] ^ (crc >> 8)
CrcByte(c, v) ==
    LET t == CRCKoopmanTable[Xor16(c[2] % 256, v)]
    IN  <<Xor16(t[1], c[1] \div 256), Xor16(t[2], (c[2] \div 256) + (c[1] % 256) * 256)>>

RECURSIVE CrcUpdate(_, _, _)
CrcUpdate(c, bytes, i) ==
    IF i > Len(bytes) THEN c
    ELSE LET n == CrcByte(c, bytes[i])
         IN  IF n[1] >= 0 THEN CrcUpdate(n, bytes, i + 1) ELSE n

Checksum(bytes) ==
    LET c == CrcUpdate(<<65535, 65535>>, bytes, 1)
    IN  BE16(65535 - c[1]) \o BE16(65535 - c[2])

-----------------------------------------------------------------------------
(* Parcel (p2p/parcel.go) *)

ProtocolVersion == 1
TypeMessage == 6

\* new(ParcelHeader), new(Parcel): Go zero values
ZeroHeader ==
    [Network |-> BE32(0), Version |-> BE16(0), Type |-> BE16(0),
     Length |-> BE32(0), Crc32 |-> BE32(0), NodeID |-> BE64(0),
     TargetPeer |-> <<>>, PeerAddress |-> <<>>, PeerPort |-> <<>>]

ZeroParcel == [length |-> BE32(0), Header |-> ZeroHeader, Payload |-> <<>>]

ParcelHeader_Init(h, network, listenPort) ==
    [h EXCEPT !.Network = network, !.Version = BE16(ProtocolVersion),
              !.Type = BE16(TypeMessage), !.TargetPeer = <<>>,
              !.PeerPort = listenPort]

Parcel_Init(p, header) == [p EXCEPT !.Header = header]

UpdateHeader(p) ==
    [p EXCEPT !.Header.Crc32 = Checksum(p.Payload),
              !.Header.Length = BE32(Len(p.Payload))]

NewParcel(network, payload, listenPort) ==
    UpdateHeader([Parcel_Init(ZeroParcel, ParcelHeader_Init(ZeroHeader, network, listenPort))
                    EXCEPT !.Payload = payload])

\* the buffer before its first four bytes are patched
MarshalBody(p) ==
    p.Header.Length \o p.Header.Network \o p.Header.Version \o p.Header.Type
      \o p.Header.Length \o p.Header.Crc32 \o p.Header.NodeID
      \o BE32(Len(p.Header.TargetPeer)) \o p.Header.TargetPeer
      \o BE32(Len(p.Header.PeerAddress)) \o p.Header.PeerAddress
      \o BE32(Len(p.Header.PeerPort)) \o p.Header.PeerPort
      \o BE32(Len(p.Payload)) \o p.Payload

Parcel_MarshalBinary(p) ==
    LET body == MarshalBody(p)
    IN  BE32(Len(body)) \o SubSeq(body, 5, Len(body))

\* offset (0-based) of the first payload byte in MarshalBinary(p)
PayloadOffset(p) ==
    44 + Len(p.Header.TargetPeer) + Len(p.Header.PeerAddress) + Len(p.Header.PeerPort)

\* Parcel.UnmarshalBinaryData: every integer is read from the start of Data,
\* and the string and payload slices are taken from newData without advancing
\* past them.  Returns [res, p, newData]; err is never assigned, so a return is
\* always with err == nil.
Parcel_UnmarshalBinaryData(p, Data) ==
    LET D    == OkSlice(Data)
        has4 == Data.n >= 4
        has8 == Data.n >= 8
        u16  == SubSeq(Data.b, 1, 2)
        u32  == SubSeq(Data.b, 1, 4)
        u64  == SubSeq(Data.b, 1, 8)
        blen == IntOf(u32)
        d1   == SliceFrom(D, 4)       \* line 81
        d2   == SliceFrom(d1, 4)      \* line 82
        d3   == SliceFrom(d2, 2)      \* line 83
        d4   == SliceFrom(d3, 2)      \* line 84
        d5   == SliceFrom(d4, 4)      \* line 85
        d6   == SliceFrom(d5, 4)      \* line 86
        d7   == SliceFrom(d6, 8)      \* line 87
        d8   == SliceFrom(d7, 4)      \* line 89
        tp   == SliceTo(d8, blen)     \* line 90
        d9   == SliceFrom(d8, 4)      \* line 91
        pa   == SliceTo(d9, blen)     \* line 92
        d10  == SliceFrom(d9, 4)      \* line 93
        pp   == SliceTo(d10, blen)    \* line 94
        d11  == SliceFrom(d10, 4)     \* line 96
        pl   == SliceTo(d11, blen)    \* line 98
    IN  IF has4 /\ has8 /\ d11.ok /\ tp.ok /\ pa.ok /\ pp.ok /\ pl.ok
        THEN [res |-> "ok",
              p |-> [length |-> u32,
                     Header |-> [Network |-> u32, Version |-> u16, Type |-> u16,
                                 Length |-> u32, Crc32 |-> u32, NodeID |-> u64,
                                 TargetPeer |-> BytesOf(tp),
                                 PeerAddress |-> BytesOf(pa),
                                 PeerPort |-> BytesOf(pp)],
                     Payload |-> BytesOf(pl)],
              newData |-> BytesOf(d11)]
        ELSE [res |-> "panic", p |-> p, newData |-> <<>>]

\* Parcel.UnmarshalBinary: drops newData, hands back the same outcome
Parcel_UnmarshalBinary(p, Data) ==
    [res |-> Parcel_UnmarshalBinaryData(p, Data).res,
     p   |-> Parcel_UnmarshalBinaryData(p, Data).p]


-----------------------------------------------------------------------------
(* primitives: Timestamp, Hash, Signature, Sha and the signer *)

TimestampLen == 6
HashLen == 32
PubKeyLen == 32
SigLen == 64

Fill(v, n) == [i \in 1..n |-> v]

\* an absent (nil) interface value, and a present one
None == <<>>
Some(x) == <<x>>

\* primitives.Sha(data): an ideal hash, one value per input
Sha(bytes) == [sha |-> bytes]

\* the public key of signer k
PubOf(k) == Fill(k, PubKeyLen)

\* key.Sign(data): an ideal deterministic signature, one value per signer and
\* per signed text of up to SigLen bytes
SignData(k, bytes) ==
    [Pub |-> PubOf(k), Sig |-> SubSeq(bytes \o Fill(k, SigLen), 1, SigLen)]

\* Signature.MarshalBinary
Signature_MarshalBinary(sig) == sig.Pub \o sig.Sig

\* t.UnmarshalBinaryData / h.UnmarshalBinaryData: a fixed-width field of n
\* bytes, an error when fewer are left
ReadFixed(bytes, n) ==
    IF Len(bytes) < n
    THEN [ok |-> FALSE, v |-> <<>>, rest |-> <<>>]
    ELSE [ok |-> TRUE, v |-> SubSeq(bytes, 1, n), rest |-> SubSeq(bytes, n + 1, Len(bytes))]

\* Signature.UnmarshalBinaryData
Signature_UnmarshalBinaryData(bytes) ==
    LET r == ReadFixed(bytes, PubKeyLen + SigLen)
    IN  IF r.ok
        THEN [ok |-> TRUE,
              v |-> [Pub |-> SubSeq(r.v, 1, PubKeyLen),
                     Sig |-> SubSeq(r.v, PubKeyLen + 1, PubKeyLen + SigLen)],
              rest |-> r.rest]
        ELSE [ok |-> FALSE, v |-> [Pub |-> <<>>, Sig |-> <<>>], rest |-> <<>>]

-----------------------------------------------------------------------------
(* RemoveServerMsg (common/messages/removeServer.go) *)

REMOVESERVER_MSG == 24

ZeroTimestamp == Fill(0, TimestampLen)
ZeroHash == Fill(0, HashLen)

\* new(RemoveServerMsg)
ZeroRSM ==
    [kind |-> "rsm", Timestamp |-> ZeroTimestamp, ServerChainID |-> ZeroHash,
     ServerType |-> 0, Signature |-> None, MsgHash |-> None]

NewRemoveServerMsg(timestamp, chainId, serverType) ==
    [ZeroRSM EXCEPT !.ServerChainID = chainId, !.ServerType = serverType,
                    !.Timestamp = timestamp]

RSM_Type == REMOVESERVER_MSG

RSM_MarshalForSignature(m) ==
    <<RSM_Type>> \o m.Timestamp \o m.ServerChainID \o <<m.ServerType % 256>>

RSM_MarshalBinary(m) ==
    RSM_MarshalForSignature(m)
      \o (IF m.Signature # None THEN Signature_MarshalBinary(m.Signature[1]) ELSE <<>>)

\* SignSignable(m, key): the signer applied to the signable encoding; fails
\* when MarshalForSignature does
SignSignable(m, k, fails) ==
    IF fails THEN [err |-> TRUE, sig |-> None]
    ELSE [err |-> FALSE, sig |-> Some(SignData(k, RSM_MarshalForSignature(m)))]

\* m.Sign(key): [m, err]
RSM_Sign_AssignFirst(m, k, fails) ==
    [m |-> [m EXCEPT !.Signature = SignSignable(m, k, fails).sig],
     err |-> SignSignable(m, k, fails).err]

RSM_Sign(m, k, fails) ==
    IF SignSignable(m, k, fails).err
    THEN [m |-> m, err |-> TRUE]
    ELSE [m |-> [m EXCEPT !.Signature = SignSignable(m, k, fails).sig], err |-> FALSE]

\* m.GetMsgHash(): [m, hash]
RSM_GetMsgHash(m) ==
    IF m.MsgHash = None
    THEN [m |-> [m EXCEPT !.MsgHash = Some(Sha(RSM_MarshalForSignature(m)))],
          hash |-> Some(Sha(RSM_MarshalForSignature(m)))]
    ELSE [m |-> m, hash |-> m.MsgHash]

\* m.Validate(state): the first statement returns 1; the checks written after
\* it (authority, signature) are never run
RSM_Validate(m) == 1

\* m.IsSameAs(b), b not nil
RSM_IsSameAs(m, b) ==
    /\ m.Timestamp = b.Timestamp
    /\ m.ServerChainID = b.ServerChainID
    /\ m.ServerType = b.ServerType
    /\ ~(m.Signature = None /\ b.Signature # None)
    /\ (m.Signature # None => m.Signature = b.Signature)

\* m.UnmarshalBinaryData(data): [res, m, newData].  The deferred function
\* returns before it calls recover, so an index out of range is a panic.
RSM_UnmarshalBinaryData_Sig96(m, buf) ==
    LET ts  == ReadFixed(Tail(buf), TimestampLen)
        ch  == ReadFixed(ts.rest, HashLen)
        m1  == [m EXCEPT !.Timestamp = IF ts.ok THEN ts.v ELSE ZeroTimestamp]
        m2  == [m1 EXCEPT !.ServerChainID = IF ch.ok THEN ch.v ELSE ZeroHash]
        m3  == [m2 EXCEPT !.ServerType = Head(ch.rest)]
        nd  == Tail(ch.rest)
        sg  == Signature_UnmarshalBinaryData(nd)
    IN  IF buf = <<>> THEN [res |-> "panic", m |-> m, newData |-> <<>>]
        ELSE IF buf[1] # RSM_Type THEN [res |-> "err", m |-> m, newData |-> <<>>]
        ELSE IF ~ts.ok THEN [res |-> "err", m |-> m1, newData |-> <<>>]
        ELSE IF ~ch.ok THEN [res |-> "err", m |-> m2, newData |-> <<>>]
        ELSE IF ch.rest = <<>> THEN [res |-> "panic", m |-> m2, newData |-> <<>>]
        ELSE IF Len(nd) > 96
             THEN (IF sg.ok
                   THEN [res |-> "ok", m |-> [m3 EXCEPT !.Signature = Some(sg.v)],
                         newData |-> sg.rest]
                   ELSE [res |-> "err", m |-> m3, newData |-> <<>>])
        ELSE [res |-> "ok", m |-> m3, newData |-> nd]

RSM_UnmarshalBinaryData(m, buf) ==
    LET ts  == ReadFixed(Tail(buf), TimestampLen)
        ch  == ReadFixed(ts.rest, HashLen)
        m1  == [m EXCEPT !.Timestamp = IF ts.ok THEN ts.v ELSE ZeroTimestamp]
        m2  == [m1 EXCEPT !.ServerChainID = IF ch.ok THEN ch.v ELSE ZeroHash]
        m3  == [m2 EXCEPT !.ServerType = Head(ch.rest)]
        nd  == Tail(ch.rest)
        sg  == Signature_UnmarshalBinaryData(nd)
    IN  IF buf = <<>> THEN [res |-> "panic", m |-> m, newData |-> <<>>]
        ELSE IF buf[1] # RSM_Type THEN [res |-> "err", m |-> m, newData |-> <<>>]
        ELSE IF ~ts.ok THEN [res |-> "err", m |-> m1, newData |-> <<>>]
        ELSE IF ~ch.ok THEN [res |-> "err", m |-> m2, newData |-> <<>>]
        ELSE IF ch.rest = <<>> THEN [res |-> "panic", m |-> m2, newData |-> <<>>]
        ELSE IF Len(nd) > 32
             THEN (IF sg.ok
                   THEN [res |-> "ok", m |-> [m3 EXCEPT !.Signature = Some(sg.v)],
                         newData |-> sg.rest]
                   ELSE [res |-> "err", m |-> m3, newData |-> <<>>])
        ELSE [res |-> "ok", m |-> m3, newData |-> nd]

-----------------------------------------------------------------------------
(* MsgReject (common/messages/msgreject.go) *)

CmdBlock == <<98, 108, 111, 99, 107>>                         \* "block"
CmdTx == <<116, 120>>                                         \* "tx"
CmdHandshake == <<104, 97, 110, 100, 115, 104, 97, 107, 101>> \* "handshake"

RejectMalformed == 1
RejectInvalid == 16

\* &MsgReject{Cmd: command, Code: code, Reason: reason}
NewMsgReject(command, code, reason) ==
    [kind |-> "reject", Cmd |-> command, Code |-> code, Reason |-> reason,
     Hash |-> None, MsgHash |-> None]

\* m.Type()
Reject_Type == -1

\* little-endian value of a byte string, saturated at Huge
RECURSIVE LEValue(_)
LEValue(b) ==
    IF b = <<>> THEN 0
    ELSE IF LEValue(Tail(b)) >= 65536 THEN Huge
    ELSE Head(b) + 256 * LEValue(Tail(b))

\* readVarInt: a count below 0xfd is one byte; 0xfd, 0xfe and 0xff announce a
\* count of 2, 4 and 8 bytes
ReadVarInt(bytes) ==
    IF bytes = <<>> THEN [ok |-> FALSE, v |-> 0, rest |-> <<>>]
    ELSE IF bytes[1] < 253 THEN [ok |-> TRUE, v |-> bytes[1], rest |-> Tail(bytes)]
    ELSE LET w == IF bytes[1] = 253 THEN 2 ELSE IF bytes[1] = 254 THEN 4 ELSE 8
             r == ReadFixed(Tail(bytes), w)
         IN  [ok |-> r.ok, v |-> LEValue(r.v), rest |-> r.rest]

\* readVarString
ReadVarString(bytes) ==
    LET c == ReadVarInt(bytes)
        r == ReadFixed(c.rest, c.v)
    IN  IF c.ok /\ r.ok THEN r ELSE [ok |-> FALSE, v |-> <<>>, rest |-> <<>>]

\* writeVarString, for strings shorter than 0xfd
WriteVarString(str) == <<Len(str)>> \o str

\* m.MarshalForSignature(): nil, nil
Reject_MarshalForSignature(m) == <<>>

\* m.MarshalBinary(): [err, data]; the hash element is written whatever Cmd
\* is, and an unset Hash cannot be written
Reject_MarshalBinary(m) ==
    IF m.Hash = None
    THEN [err |-> TRUE, data |-> <<>>]
    ELSE [err |-> FALSE,
          data |-> WriteVarString(m.Cmd) \o <<m.Code>> \o WriteVarString(m.Reason)
                     \o m.Hash[1]]

\* m.GetMsgHash(): [m, hash]
Reject_GetMsgHash(m) ==
    IF m.MsgHash = None
    THEN (IF Reject_MarshalBinary(m).err
          THEN [m |-> m, hash |-> None]
          ELSE [m |-> [m EXCEPT !.MsgHash = Some(Sha(Reject_MarshalBinary(m).data))],
                hash |-> Some(Sha(Reject_MarshalBinary(m).data))])
    ELSE [m |-> m, hash |-> m.MsgHash]

\* m.UnmarshalBinaryData(data): [res, m, newData]; no tag is compared, the
\* hash element is read whatever Cmd is, and the remainder returned is nil
Reject_UnmarshalBinaryData(m, buf) ==
    LET cmd    == ReadVarString(buf)
        code   == ReadFixed(cmd.rest, 1)
        reason == ReadVarString(code.rest)
        hash   == ReadFixed(reason.rest, HashLen)
        m1     == [m EXCEPT !.Cmd = cmd.v]
        m2     == [m1 EXCEPT !.Code = code.v[1]]
        m3     == [m2 EXCEPT !.Reason = reason.v]
        m4     == [m3 EXCEPT !.Hash = Some(hash.v)]
    IN  IF ~cmd.ok THEN [res |-> "err", m |-> m1, newData |-> <<>>]
        ELSE IF ~code.ok THEN [res |-> "err", m |-> m1, newData |-> <<>>]
        ELSE IF ~reason.ok THEN [res |-> "err", m |-> m3, newData |-> <<>>]
        ELSE IF ~hash.ok THEN [res |-> "err", m |-> m3, newData |-> <<>>]
        ELSE [res |-> "ok", m |-> m4, newData |-> <<>>]

\* the protocol version from which a reject message exists
RejectVersion == 70002

\* CmdBlock and CmdTx messages have an additional hash field
HasHashField(cmd) == cmd = CmdBlock \/ cmd = CmdTx

\* msg.BtcEncode(w, pver): [err, data], data what was written to w
Reject_BtcEncode(m, pver) ==
    IF pver < RejectVersion THEN [err |-> TRUE, data |-> <<>>]
    ELSE IF HasHashField(m.Cmd)
    THEN (IF m.Hash = None
          THEN [err |-> TRUE,
                data |-> WriteVarString(m.Cmd) \o <<m.Code>> \o WriteVarString(m.Reason)]
          ELSE [err |-> FALSE,
                data |-> WriteVarString(m.Cmd) \o <<m.Code>> \o WriteVarString(m.Reason)
                           \o m.Hash[1]])
    ELSE [err |-> FALSE,
          data |-> WriteVarString(m.Cmd) \o <<m.Code>> \o WriteVarString(m.Reason)]

\* msg.BtcDecode(r, pver), r reading buf: [res, m, newData], newData what
\* is left in r
Reject_BtcDecode(m, buf, pver) ==
    LET cmd    == ReadVarString(buf)
        code   == ReadFixed(cmd.rest, 1)
        reason == ReadVarString(code.rest)
        hash   == ReadFixed(reason.rest, HashLen)
        m1     == [m EXCEPT !.Cmd = cmd.v]
        m2     == [m1 EXCEPT !.Code = code.v[1]]
        m3     == [m2 EXCEPT !.Reason = reason.v]
        m4     == [m3 EXCEPT !.Hash = Some(hash.v)]
    IN  IF pver < RejectVersion THEN [res |-> "err", m |-> m, newData |-> buf]
        ELSE IF ~cmd.ok THEN [res |-> "err", m |-> m, newData |-> <<>>]
        ELSE IF ~code.ok THEN [res |-> "err", m |-> m1, newData |-> <<>>]
        ELSE IF ~reason.ok THEN [res |-> "err", m |-> m2, newData |-> <<>>]
        ELSE IF ~HasHashField(cmd.v) THEN [res |-> "ok", m |-> m3, newData |-> reason.rest]
        ELSE IF ~hash.ok THEN [res |-> "err", m |-> m3, newData |-> <<>>]
        ELSE [res |-> "ok", m |-> m4, newData |-> hash.rest]

-----------------------------------------------------------------------------
(* Inputs of the message scenario *)

Keys == 1..NumKeys

\* Timestamp values: 1 ms and 2 ms
Timestamps == {Fill(0, TimestampLen - 1) \o <<t>> : t \in {1, 2}}

ChainA == Fill(1, HashLen)
ChainB == Fill(2, HashLen)
ChainIDs == {ChainA, ChainB}

\* ServerType is an int: 0 = Federated, 1 = Audit, and values a caller may
\* assign that are neither
ServerTypes == {0, 1, 255, 256}

RejectCmds == {CmdBlock, CmdTx, CmdHandshake}
RejectCodes == {RejectMalformed, RejectInvalid}
RejectReasons == {<<>>, <<120>>}
RejectHashes == {None, Some(Fill(9, HashLen))}

\* values the first byte of a buffer is overwritten with
LeadBytes == {0, REMOVESERVER_MSG, 253}

\* lengths an encoded RemoveServerMsg is cut to: nothing, the tag byte alone,
\* inside the timestamp, inside the chain id, just before the ServerType byte
MsgTruncLens == {0, 1, 1 + TimestampLen \div 2, 1 + TimestampLen + HashLen \div 2,
                 1 + TimestampLen + HashLen}

\* protocol versions handed to BtcEncode / BtcDecode
Pvers == {0, RejectVersion}

ZeroReject == NewMsgReject(<<>>, 0, <<>>)

NoCall == [op |-> "none", err |-> FALSE, key |-> 0, verdict |-> 2, hash |-> None]
NoMDec == [by |-> "none", out |-> [res |-> "none", m |-> ZeroRSM, newData |-> <<>>]]

\* the message scenario not started
MsgIdle ==
    /\ phase = "idle" /\ msg = ZeroRSM /\ edited = FALSE /\ prev = ZeroRSM
    /\ mlast = NoCall /\ mbuf = <<>> /\ mdec = NoMDec

-----------------------------------------------------------------------------
(* State (state/state.go) *)

\* Network MAIN = 0, TEST = 1, LOCAL = 2, CUSTOM = 3
NETWORK_MAIN == 0
NETWORK_TEST == 1
NETWORK_LOCAL == 2
NETWORK_CUSTOM == 3

QueueNames == {"networkInMsgQueue", "networkInvalidMsgQueue", "networkOutMsgQueue",
               "inMsgQueue", "leaderInMsgQueue", "followerInMsgQueue"}

\* new(State): every field zero, every channel nil
ZeroState ==
    [NetworkNumber |-> 0, TotalServers |-> 0, ServerState |-> 0, DBHeight |-> 0,
     CurrentDirectoryBlock |-> None, made |-> FALSE]

\* make(chan interfaces.IMsg, n)
MakeChan(n) == [cap |-> n, buf |-> <<>>]

\* a nil channel: nothing can be sent on it
NilChan == [cap |-> 0, buf |-> <<>>]

NoQueues == [q \in QueueNames |-> NilChan]

NoSenders == [q \in QueueNames |-> <<>>]

InitQueues_OneLarger ==
    [q \in QueueNames |-> MakeChan(QueueCapacity + 1)]

\* the six channels State.Init makes, all of one capacity
InitQueues ==
    [q \in QueueNames |-> MakeChan(QueueCapacity)]

\* ch <- m by a producer: [ch, blocked].  The message enters the buffer if
\* there is room; otherwise the channel is untouched and the sender waits.
ChanSend(ch, m) ==
    IF Len(ch.buf) < ch.cap
    THEN [ch |-> [ch EXCEPT !.buf = Append(@, m)], blocked |-> FALSE]
    ELSE [ch |-> ch, blocked |-> TRUE]

\* m := <-ch by a consumer, ch not empty, w the messages of the senders
\* waiting on ch: [m, ch, w].  The head leaves the buffer and the sender that
\* has waited longest puts its message at the tail in the same step.
ChanRecv(ch, w) ==
    LET rest == Tail(ch.buf)
    IN  IF w = <<>>
        THEN [m |-> Head(ch.buf), ch |-> [ch EXCEPT !.buf = rest], w |-> w]
        ELSE [m |-> Head(ch.buf), ch |-> [ch EXCEPT !.buf = Append(rest, Head(w))],
              w |-> Tail(w)]

GetDBHeight(s) == s.DBHeight

SetDBHeight(s, dbheight) == [s EXCEPT !.DBHeight = dbheight]

SetCurrentDirectoryBlock(s, dirblk) == [s EXCEPT !.CurrentDirectoryBlock = dirblk]

GetNetworkNumber(s) == s.NetworkNumber

\* s.loadDatabase(), got what s.DB.Get handed back: [err, height], height the
\* DBHeight in the header of the block read.  dblk is new(DirectoryBlock), so
\* dblk == nil is false and the genesis branch is never taken.  [res, s]
loadDatabase(s, got) ==
    IF got.err THEN [res |-> "panic", s |-> s]
    ELSE [res |-> "ok",
          s |-> SetCurrentDirectoryBlock(SetDBHeight(s, got.height), Some(got.height))]

\* s.Init(), network the Network of factomd.conf: [res, s]
State_Init(s, network, got) ==
    LET s1 == [s EXCEPT !.made = TRUE, !.TotalServers = 1, !.ServerState = 1]
        n  == CASE network = "MAIN"   -> NETWORK_MAIN
                [] network = "TEST"   -> NETWORK_TEST
                [] network = "LOCAL"  -> NETWORK_LOCAL
                [] network = "CUSTOM" -> NETWORK_CUSTOM
                [] OTHER              -> -1
    IN  IF n = -1 THEN [res |-> "panic", s |-> s1]
        ELSE loadDatabase([s1 EXCEPT !.NetworkNumber = n], got)

\* m.Validate(dbheight, state), m a MsgReject
Reject_Validate(m, dbheight, s) == 0

\* m.Leader(state), m a MsgReject: every case of the switch panics
Reject_Leader(m, s) ==
    CASE GetNetworkNumber(s) = 0 -> "panic"
      [] GetNetworkNumber(s) = 1 -> "panic"
      [] GetNetworkNumber(s) = 2 -> "panic"
      [] OTHER                   -> "panic"

NoSCall == [op |-> "none", res |-> "none", verdict |-> 2, before |-> 0]

\* the State scenarios not started
StateIdle ==
    /\ state = ZeroState /\ queues = NoQueues /\ pending = NoSenders /\ pushed = 0
    /\ slast = NoSCall

-----------------------------------------------------------------------------
(* Inputs of the Parcel scenario *)

\* NetworkID values handed to NewParcel
Networks == {BE32(0), BE32(2)}

\* payloads: the prefixes of "hihi..."
PayloadOfLen(k) == [i \in 1..k |-> IF i % 2 = 1 THEN 104 ELSE 105]
Payloads == {PayloadOfLen(k) : k \in 0..MaxPayloadLen}

\* strings: the prefixes of "888..."
StrOfLen(k) == [i \in 1..k |-> 56]
Strs == {StrOfLen(k) : k \in 0..MaxStrLen}

\* spare capacity behind the encoded bytes in their backing array
ExtraCaps == {0, 43, 44}

\* bits of a payload byte that a transmission fault flips
FlipBits == {0, 7}

\* lengths a buffer is cut to
TruncLens == {0, 3, 4, 43}

FlipBit(v, k) == IF (v \div (2 ^ k)) % 2 = 1 THEN v - 2 ^ k ELSE v + 2 ^ k

NoData == [b |-> <<>>, n |-> 0]
NoDec == [res |-> "none", p |-> ZeroParcel, newData |-> <<>>]

-----------------------------------------------------------------------------
(* The Parcel scenario: build, encode, damage, decode *)

\* the Wire scenario not started
WireIdle ==
    /\ conn = "nil" /\ encoder = FALSE /\ decoder = FALSE
    /\ Writes = 0 /\ WritesErr = 0 /\ Reads = 0 /\ ReadsErr = 0
    /\ wcalls = 0
    /\ wlast = [op |-> "none", res |-> "none", afterClose |-> FALSE, written |-> FALSE, connErr |-> FALSE,
                plen |-> 0]

ParcelInit ==
    /\ stage = "built"
    /\ \E nw \in Networks, pl \in Payloads, port \in Strs :
          parcel = NewParcel(nw, pl, port)
    /\ data = NoData
    /\ tamper = "none"
    /\ dec = NoDec
    /\ WireIdle
    /\ MsgIdle
    /\ StateIdle

\* parcel.Header.TargetPeer = s
SetTargetPeer ==
    /\ stage = "built"
    /\ \E s \in Strs : parcel' = [parcel EXCEPT !.Header.TargetPeer = s]
    /\ UNCHANGED <<stage, data, tamper, dec, notParcel>>

\* parcel.Header.PeerAddress = s
SetPeerAddress ==
    /\ stage = "built"
    /\ \E s \in Strs : parcel' = [parcel EXCEPT !.Header.PeerAddress = s]
    /\ UNCHANGED <<stage, data, tamper, dec, notParcel>>

\* parcel.Header.PeerPort = s
SetPeerPort ==
    /\ stage = "built"
    /\ \E s \in Strs : parcel' = [parcel EXCEPT !.Header.PeerPort = s]
    /\ UNCHANGED <<stage, data, tamper, dec, notParcel>>

\* parcel.Payload = b, the header left as it is
SetPayload ==
    /\ stage = "built"
    /\ \E b \in Payloads : parcel' = [parcel EXCEPT !.Payload = b]
    /\ UNCHANGED <<stage, data, tamper, dec, notParcel>>

\* parcel.UpdateHeader()
DoUpdateHeader ==
    /\ stage = "built"
    /\ parcel' = UpdateHeader(parcel)
    /\ UNCHANGED <<stage, data, tamper, dec, notParcel>>

\* data, _ = parcel.MarshalBinary()
DoMarshal ==
    /\ stage = "built"
    /\ \E extra \in ExtraCaps : data' = MkSlice(Parcel_MarshalBinary(parcel), extra)
    /\ stage' = "encoded"
    /\ UNCHANGED <<parcel, tamper, dec, notParcel>>

\* one bit of one payload byte of the encoded buffer flips
FlipPayloadBit ==
    /\ stage = "encoded"
    /\ tamper = "none"
    /\ \E i \in 1..Len(parcel.Payload), k \in FlipBits :
          data' = [data EXCEPT !.b[PayloadOffset(parcel) + i] = FlipBit(@, k)]
    /\ tamper' = "flip"
    /\ UNCHANGED <<stage, parcel, dec, notParcel>>

\* the buffer is cut short (a short read)
Truncate ==
    /\ stage = "encoded"
    /\ tamper = "none"
    /\ \E k \in TruncLens :
          /\ k < data.n
          /\ data' = MkSlice(SubSeq(data.b, 1, k), 0)
    /\ tamper' = "trunc"
    /\ UNCHANGED <<stage, parcel, dec, notParcel>>

\* q := new(Parcel); q.UnmarshalBinaryData(data)
DoUnmarshal ==
    /\ stage = "encoded"
    /\ dec' = Parcel_UnmarshalBinaryData(ZeroParcel, data)
    /\ stage' = "decoded"
    /\ UNCHANGED <<parcel, data, tamper, notParcel>>

ParcelNext ==
    \/ SetTargetPeer
    \/ SetPeerAddress
    \/ SetPeerPort
    \/ SetPayload
    \/ DoUpdateHeader
    \/ DoMarshal
    \/ FlipPayloadBit
    \/ Truncate
    \/ DoUnmarshal

ParcelSpec == ParcelInit /\ [][ParcelNext]_vars

-----------------------------------------------------------------------------
(* Claims about the Parcel codec *)

\* C1: decoding the untouched encoding of a parcel returns without error and
\* reproduces the parcel field for field (Header.Network, Version, Type,
\* Length, Crc32, NodeID, TargetPeer, PeerAddress, PeerPort and Payload).
C1_ParcelRoundTrip ==
    (stage = "decoded" /\ tamper = "none") =>
        /\ dec.res = "ok"
        /\ dec.p.Header = parcel.Header
        /\ dec.p.Payload = parcel.Payload

\* C2: a parcel built by NewParcel (its header agrees with its payload) whose
\* encoded payload had one bit flipped is never returned as decoded: the
\* decode fails its checksum verification.
C2_FlippedPayloadRejected ==
    (stage = "decoded" /\ tamper = "flip" /\ parcel = UpdateHeader(parcel)) =>
        dec.res # "ok"

\* where the length-prefixed field starting at offset off of bytes ends, or -1
\* when the prefix or the field it declares reaches past the end of bytes
FieldEnd(bytes, off) ==
    IF off < 0 \/ off + 4 > Len(bytes) THEN -1
    ELSE IF off + 4 + IntOf(SubSeq(bytes, off + 1, off + 4)) > Len(bytes) THEN -1
    ELSE off + 4 + IntOf(SubSeq(bytes, off + 1, off + 4))

\* the fixed header and the four length-prefixed fields fit in bytes
WellFramed(bytes) ==
    /\ Len(bytes) >= 28
    /\ FieldEnd(bytes, FieldEnd(bytes, FieldEnd(bytes, FieldEnd(bytes, 28)))) >= 0

\* C6: decoding a buffer shorter than the fixed header, or one in which a
\* declared length field reaches past the end of the buffer, returns a framing
\* error: it neither panics nor returns a parcel.
C6_ShortBufferIsFramingError ==
    (stage = "decoded" /\ ~WellFramed(BytesOf(data))) => dec.res = "err"

-----------------------------------------------------------------------------
(* Wire (p2p/wire.go) *)

\* the maximum bytes a message can be at the networking level (512KB)
MaxPayloadSize == 524288

\* bytes of an encoded parcel that are not payload, its strings empty: the
\* total length, the header (ParcelHeaderSize) and four counts
ParcelFixedLen == 44

\* payload length of a parcel over the ceiling; such a parcel is kept as its
\* length, MarshalBinary of it has BigPackLen bytes and starts with that count
BigPayloadLen == MaxPayloadSize + 1
BigPackLen == ParcelFixedLen + BigPayloadLen

\* Parcel.UnmarshalBinaryData on a buffer of n bytes and capacity c whose
\* first four bytes hold blen: the seven header reads need 44 bytes, and the
\* payload slice newData[:blen] must end within the capacity left after them
Parcel_UnmarshalOutcome(n, c, blen) ==
    IF n >= ParcelFixedLen /\ blen <= c - ParcelFixedLen THEN "ok" ELSE "panic"

\* parcels handed to Send
SendParcels == {NewParcel(BE32(2), pl, <<>>) : pl \in Payloads}

\* ParcelPack payloads a peer sends: encoded parcels, and the empty payload
InPacks == {Parcel_MarshalBinary(p) : p \in SendParcels} \cup {<<>>}

\* what conn.Write(b) returns, as [i, e], for a buffer of n bytes: everything
\* written, the deadline elapsed before any byte, or after the first byte
ConnWrites(c, n) ==
    IF c = "closed" THEN {[i |-> 0, e |-> TRUE]}
    ELSE {[i |-> n, e |-> FALSE], [i |-> 0, e |-> TRUE], [i |-> 1, e |-> TRUE]}

\* what conn.Read(b) returns, as [i, e], when n bytes are on their way
ConnReads(c, n) ==
    IF c = "closed" THEN {[i |-> 0, e |-> TRUE]}
    ELSE {[i |-> n, e |-> FALSE], [i |-> 0, e |-> TRUE]}

\* Wire.Write after conn.Write returned r: the error it hands to the encoder
Wire_Write_e(r) == IF r.i > 0 THEN FALSE ELSE r.e

\* Wire.Read after conn.Read returned r: the error it hands to the decoder
Wire_Read_e(r) == IF r.i > 0 THEN FALSE ELSE r.e

\* the error Send returns: the named result err, which no statement assigns
\* (the err of the if block is another variable, and Encode's error is dropped)
Wire_Send_err(encodeErr) == FALSE

WLast(op, res, written, connErr) ==
    [op |-> op, res |-> res, afterClose |-> wlast.afterClose, written |-> written,
     connErr |-> connErr, plen |-> 0]

\* w := NewWire(conn)
NewWire ==
    /\ conn \in {"nil", "open"}
    /\ encoder = FALSE /\ decoder = FALSE
    /\ Writes = 0 /\ WritesErr = 0 /\ Reads = 0 /\ ReadsErr = 0
    /\ wcalls = 0
    /\ wlast = [op |-> "none", res |-> "none", afterClose |-> FALSE, written |-> FALSE, connErr |-> FALSE,
                plen |-> 0]

Running == wlast.res # "panic"

\* w.Init()
Wire_Init ==
    /\ Running
    /\ encoder' = TRUE
    /\ decoder' = TRUE
    /\ wlast' = [op |-> "Init", res |-> "none", afterClose |-> FALSE, written |-> FALSE, connErr |-> FALSE,
                plen |-> 0]
    /\ UNCHANGED <<conn, Writes, WritesErr, Reads, ReadsErr, wcalls, notWire>>

\* w.Close()
Wire_Close ==
    /\ Running
    /\ conn' = IF conn # "nil" THEN "closed" ELSE conn
    /\ decoder' = FALSE
    /\ encoder' = FALSE
    /\ wlast' = [op |-> "Close", res |-> "none", afterClose |-> TRUE, written |-> FALSE, connErr |-> FALSE,
                plen |-> 0]
    /\ UNCHANGED <<Writes, WritesErr, Reads, ReadsErr, wcalls, notWire>>

\* w.Send(p), no encoder: nothing is done and err (nil) is returned
Wire_Send_NoEncoder ==
    /\ Running /\ wcalls < MaxCalls
    /\ ~encoder
    /\ wcalls' = wcalls + 1
    /\ wlast' = WLast("Send", IF Wire_Send_err(FALSE) THEN "err" ELSE "nil", FALSE, FALSE)
    /\ UNCHANGED <<conn, encoder, decoder, Writes, WritesErr, Reads, ReadsErr, notWire>>

\* w.Send(p), encoder set, conn nil: m.conn.SetWriteDeadline panics
Wire_Send_NilConn ==
    /\ Running /\ wcalls < MaxCalls
    /\ encoder /\ conn = "nil"
    /\ wcalls' = wcalls + 1
    /\ wlast' = WLast("Send", "panic", FALSE, FALSE)
    /\ UNCHANGED <<conn, encoder, decoder, Writes, WritesErr, Reads, ReadsErr, notWire>>

\* w.Send(p), encoder set: the pack is encoded through Wire.Write
Wire_Send ==
    /\ Running /\ wcalls < MaxCalls
    /\ encoder /\ conn # "nil"
    /\ \E p \in SendParcels :
         \E r \in ConnWrites(conn, Len(Parcel_MarshalBinary(p))) :
            /\ Writes' = Writes + r.i
            /\ WritesErr' = IF Wire_Write_e(r) THEN WritesErr + 1 ELSE WritesErr
            /\ wlast' = [WLast("Send",
                                    IF Wire_Send_err(Wire_Write_e(r)) THEN "err" ELSE "nil",
                                    r.i = Len(Parcel_MarshalBinary(p)), r.e)
                            EXCEPT !.plen = Len(p.Payload)]
    /\ wcalls' = wcalls + 1
    /\ UNCHANGED <<conn, encoder, decoder, Reads, ReadsErr, notWire>>

\* w.Receive(), conn nil or no decoder: m.conn.SetReadDeadline or
\* m.decoder.Decode dereferences nil
Wire_Receive_Nil ==
    /\ Running /\ wcalls < MaxCalls
    /\ (conn = "nil" \/ ~decoder)
    /\ wcalls' = wcalls + 1
    /\ wlast' = WLast("Receive", "panic", FALSE, FALSE)
    /\ UNCHANGED <<conn, encoder, decoder, Writes, WritesErr, Reads, ReadsErr, notWire>>

\* w.Receive(): a pack is decoded through Wire.Read, its payload unmarshalled
Wire_Receive ==
    /\ Running /\ wcalls < MaxCalls
    /\ conn # "nil" /\ decoder
    /\ \E bytes \in InPacks :
         \E r \in ConnReads(conn, Len(bytes)) :
            LET err     == Wire_Read_e(r)
                payload == IF r.i = Len(bytes) THEN MkSlice(bytes, 0) ELSE NoData
                un      == Parcel_UnmarshalBinary(ZeroParcel, payload)
            IN  /\ Reads' = Reads + r.i
                /\ ReadsErr' = IF err THEN ReadsErr + 1 ELSE ReadsErr
                /\ wlast' = [WLast("Receive",
                                        IF payload.n > 0
                                        THEN (IF un.res = "ok" THEN "nil" ELSE un.res)
                                        ELSE (IF err THEN "err" ELSE "nil"),
                                        FALSE, r.e)
                                EXCEPT !.plen = IF bytes = <<>> THEN 0
                                                ELSE Len(bytes) - ParcelFixedLen]
    /\ wcalls' = wcalls + 1
    /\ UNCHANGED <<conn, encoder, decoder, Writes, WritesErr, notWire>>

\* w.Send(p), encoder set, p.Payload of BigPayloadLen bytes
Wire_Send_Big ==
    /\ Running /\ wcalls < MaxCalls
    /\ encoder /\ conn # "nil"
    /\ \E r \in ConnWrites(conn, BigPackLen) :
          /\ Writes' = Writes + r.i
          /\ WritesErr' = IF Wire_Write_e(r) THEN WritesErr + 1 ELSE WritesErr
          /\ wlast' = [WLast("Send",
                              IF Wire_Send_err(Wire_Write_e(r)) THEN "err" ELSE "nil",
                              r.i = BigPackLen, r.e)
                        EXCEPT !.plen = BigPayloadLen]
    /\ wcalls' = wcalls + 1
    /\ UNCHANGED <<conn, encoder, decoder, Reads, ReadsErr, notWire>>

\* w.Receive(), the pack on its way holds an encoded parcel whose payload has
\* BigPayloadLen bytes, decoded into a slice without spare capacity
Wire_Receive_Big ==
    /\ Running /\ wcalls < MaxCalls
    /\ conn # "nil" /\ decoder
    /\ \E r \in ConnReads(conn, BigPackLen) :
          LET err == Wire_Read_e(r)
              n   == IF r.i = BigPackLen THEN BigPackLen ELSE 0
              un  == Parcel_UnmarshalOutcome(n, n, BigPackLen)
          IN  /\ Reads' = Reads + r.i
              /\ ReadsErr' = IF err THEN ReadsErr + 1 ELSE ReadsErr
              /\ wlast' = [WLast("Receive",
                                  IF n > 0
                                  THEN (IF un = "ok" THEN "nil" ELSE un)
                                  ELSE (IF err THEN "err" ELSE "nil"),
                                  FALSE, r.e)
                            EXCEPT !.plen = BigPayloadLen]
    /\ wcalls' = wcalls + 1
    /\ UNCHANGED <<conn, encoder, decoder, Writes, WritesErr, notWire>>

\* the Parcel scenario not started
ParcelIdle ==
    /\ stage = "idle" /\ parcel = ZeroParcel /\ data = NoData
    /\ tamper = "none" /\ dec = NoDec

WireStart == NewWire /\ ParcelIdle /\ MsgIdle /\ StateIdle

WireNext ==
    \/ Wire_Init
    \/ Wire_Close
    \/ Wire_Send_NoEncoder
    \/ Wire_Send_NilConn
    \/ Wire_Send
    \/ Wire_Receive_Nil
    \/ Wire_Receive
    \/ Wire_Send_Big
    \/ Wire_Receive_Big

WireSpec == WireStart /\ [][WireNext]_vars

-----------------------------------------------------------------------------
(* Claims about Wire *)

\* C4: a Send or Receive made after Close closed the connection returns a
\* non-nil error: it does not return nil and it does not abort the process.
C4_AfterCloseCallsFail ==
    (wlast.op \in {"Send", "Receive"} /\ wlast.afterClose /\ conn = "closed") =>
        wlast.res = "err"

\* C5: a Send whose write to the connection failed (the deadline had elapsed)
\* returns a non-nil error, and no Send returns nil for a parcel that was not
\* written to the connection.
C5_SendReportsFailure ==
    /\ (wlast.op = "Send" /\ wlast.connErr) => wlast.res = "err"
    /\ (wlast.op = "Send" /\ encoder /\ ~wlast.written) => wlast.res # "nil"

-----------------------------------------------------------------------------
(* The message scenario: calls on one instance, then encode, relabel, decode *)

MsgStart ==
    /\ phase = "live"
    /\ \/ \E ts \in Timestamps, c \in ChainIDs, t \in ServerTypes :
             msg = NewRemoveServerMsg(ts, c, t)
       \/ \E cmd \in RejectCmds, code \in RejectCodes, r \in RejectReasons,
             h \in RejectHashes :
             msg = [NewMsgReject(cmd, code, r) EXCEPT !.Hash = h]
    /\ edited = FALSE
    /\ prev = msg
    /\ mlast = NoCall
    /\ mbuf = <<>>
    /\ mdec = NoMDec
    /\ ParcelIdle
    /\ WireIdle
    /\ StateIdle

\* m.ServerType = t
SetServerType ==
    /\ phase = "live" /\ msg.kind = "rsm"
    /\ \E t \in ServerTypes \ {msg.ServerType} :
          msg' = [msg EXCEPT !.ServerType = t]
    /\ edited' = TRUE
    /\ prev' = msg
    /\ mlast' = [NoCall EXCEPT !.op = "SetServerType"]
    /\ UNCHANGED <<phase, mbuf, mdec, notMsg>>

\* err := m.Sign(key)
DoSign ==
    /\ phase = "live" /\ msg.kind = "rsm"
    /\ \E k \in Keys, fails \in BOOLEAN :
          /\ msg' = RSM_Sign(msg, k, fails).m
          /\ mlast' = [NoCall EXCEPT !.op = "Sign", !.key = k,
                                     !.err = RSM_Sign(msg, k, fails).err]
    /\ prev' = msg
    /\ UNCHANGED <<phase, edited, mbuf, mdec, notMsg>>

\* h := m.GetMsgHash(), m a RemoveServerMsg
DoGetMsgHash ==
    /\ phase = "live" /\ msg.kind = "rsm"
    /\ msg' = RSM_GetMsgHash(msg).m
    /\ mlast' = [NoCall EXCEPT !.op = "GetMsgHash", !.hash = RSM_GetMsgHash(msg).hash]
    /\ prev' = msg
    /\ UNCHANGED <<phase, edited, mbuf, mdec, notMsg>>

\* h := m.GetMsgHash(), m a MsgReject
DoRejectGetMsgHash ==
    /\ phase = "live" /\ msg.kind = "reject"
    /\ msg' = Reject_GetMsgHash(msg).m
    /\ mlast' = [NoCall EXCEPT !.op = "GetMsgHash", !.hash = Reject_GetMsgHash(msg).hash]
    /\ prev' = msg
    /\ UNCHANGED <<phase, edited, mbuf, mdec, notMsg>>

\* v := m.Validate(state), m a RemoveServerMsg
DoValidate ==
    /\ phase = "live" /\ msg.kind = "rsm"
    /\ mlast' = [NoCall EXCEPT !.op = "Validate", !.verdict = RSM_Validate(msg)]
    /\ prev' = msg
    /\ UNCHANGED <<phase, msg, edited, mbuf, mdec, notMsg>>

\* data, err := m.MarshalBinary(), m a RemoveServerMsg
DoMarshalBinary ==
    /\ phase = "live" /\ msg.kind = "rsm"
    /\ mbuf' = RSM_MarshalBinary(msg)
    /\ mlast' = [NoCall EXCEPT !.op = "MarshalBinary"]
    /\ prev' = msg
    /\ phase' = "encoded"
    /\ UNCHANGED <<msg, edited, mdec, notMsg>>

\* data, err := m.MarshalBinary(), m a MsgReject
DoRejectMarshalBinary ==
    /\ phase = "live" /\ msg.kind = "reject"
    /\ mbuf' = Reject_MarshalBinary(msg).data
    /\ mlast' = [NoCall EXCEPT !.op = "MarshalBinary", !.err = Reject_MarshalBinary(msg).err]
    /\ prev' = msg
    /\ phase' = "encoded"
    /\ UNCHANGED <<msg, edited, mdec, notMsg>>

\* the first byte of the buffer is overwritten
Relabel ==
    /\ phase = "encoded"
    /\ mlast.op = "MarshalBinary"
    /\ mbuf # <<>>
    /\ \E b \in LeadBytes \ {mbuf[1]} : mbuf' = [mbuf EXCEPT ![1] = b]
    /\ mlast' = [NoCall EXCEPT !.op = "Relabel"]
    /\ UNCHANGED <<phase, msg, edited, prev, mdec, notMsg>>

\* only the first k bytes of an encoded RemoveServerMsg arrive
TruncateMsg ==
    /\ phase = "encoded" /\ msg.kind = "rsm"
    /\ mlast.op = "MarshalBinary"
    /\ \E k \in MsgTruncLens :
          /\ k < Len(mbuf)
          /\ mbuf' = SubSeq(mbuf, 1, k)
    /\ mlast' = [NoCall EXCEPT !.op = "Truncate"]
    /\ UNCHANGED <<phase, msg, edited, prev, mdec, notMsg>>

\* new(RemoveServerMsg).UnmarshalBinaryData(mbuf)
DoUnmarshalBinaryData ==
    /\ phase = "encoded"
    /\ mdec' = [by |-> "rsm", out |-> RSM_UnmarshalBinaryData(ZeroRSM, mbuf)]
    /\ phase' = "decoded"
    /\ UNCHANGED <<msg, edited, prev, mlast, mbuf, notMsg>>

\* new(MsgReject).UnmarshalBinaryData(mbuf)
DoRejectUnmarshalBinaryData ==
    /\ phase = "encoded"
    /\ mdec' = [by |-> "reject", out |-> Reject_UnmarshalBinaryData(ZeroReject, mbuf)]
    /\ phase' = "decoded"
    /\ UNCHANGED <<msg, edited, prev, mlast, mbuf, notMsg>>

\* err := m.BtcEncode(w, pver), m a MsgReject, w an empty buffer
DoRejectBtcEncode ==
    /\ phase = "live" /\ msg.kind = "reject"
    /\ \E pver \in Pvers :
          /\ mbuf' = Reject_BtcEncode(msg, pver).data
          /\ mlast' = [NoCall EXCEPT !.op = "BtcEncode",
                                     !.err = Reject_BtcEncode(msg, pver).err]
    /\ prev' = msg
    /\ phase' = "encoded"
    /\ UNCHANGED <<msg, edited, mdec, notMsg>>

\* err := new(MsgReject).BtcDecode(r, pver), r reading mbuf
DoRejectBtcDecode ==
    /\ phase = "encoded"
    /\ \E pver \in Pvers :
          mdec' = [by |-> "rejectBtc", out |-> Reject_BtcDecode(ZeroReject, mbuf, pver)]
    /\ phase' = "decoded"
    /\ UNCHANGED <<msg, edited, prev, mlast, mbuf, notMsg>>

MsgNext ==
    \/ SetServerType
    \/ DoSign
    \/ DoGetMsgHash
    \/ DoRejectGetMsgHash
    \/ DoValidate
    \/ DoMarshalBinary
    \/ DoRejectMarshalBinary
    \/ Relabel
    \/ TruncateMsg
    \/ DoUnmarshalBinaryData
    \/ DoRejectUnmarshalBinaryData
    \/ DoRejectBtcEncode
    \/ DoRejectBtcDecode

MsgSpec == MsgStart /\ [][MsgNext]_vars

-----------------------------------------------------------------------------
(* Claims about the message variants *)

\* the authority set and the federated signing keys of the state
Authorities == {ChainA}
FederatedKeys == {1}

\* state.VerifyIsAuthority(chainID)
VerifyIsAuthority(c) == c \in Authorities

\* state.VerifyFederatedSignature(bytes, sig)
VerifyFederatedSignature(bytes, sig) == \E k \in FederatedKeys : sig = SignData(k, bytes)

\* a federated key's signature of the message as it was with another ServerType
SignedBeforeEdit(m) ==
    \E t \in ServerTypes \ {m.ServerType} :
        VerifyFederatedSignature(RSM_MarshalForSignature([m EXCEPT !.ServerType = t]),
                                 m.Signature[1])

\* C3: a remove-server request of a recognized authority whose signature
\* verifies over MarshalForSignature validates to 1, and one whose ServerType
\* was changed after Sign, so that the signature no longer verifies, validates
\* to -1.
C3_ValidateChecksSignature ==
    (phase = "live" /\ mlast.op = "Validate"
       /\ VerifyIsAuthority(msg.ServerChainID) /\ msg.Signature # None) =>
        IF VerifyFederatedSignature(RSM_MarshalForSignature(msg), msg.Signature[1])
        THEN mlast.verdict = 1
        ELSE (edited /\ SignedBeforeEdit(msg)) => mlast.verdict = -1

\* the signable encoding of either variant
MarshalForSignatureOf(m) ==
    IF m.kind = "rsm" THEN RSM_MarshalForSignature(m) ELSE Reject_MarshalForSignature(m)

\* C7: on an instance whose fields were not assigned since construction, the
\* hash GetMsgHash returns is the hash of the signable encoding
\* (MarshalForSignature), and it is the one cached on the instance.
C7_HashOfSignableEncoding ==
    (phase = "live" /\ ~edited /\ mlast.op = "GetMsgHash" /\ mlast.hash # None) =>
        /\ mlast.hash = Some(Sha(MarshalForSignatureOf(msg)))
        /\ msg.MsgHash = mlast.hash

\* C8: Sign(key) on a message that already carries key's signature of its
\* signable encoding leaves MarshalBinary as it was: the signable encoding
\* followed by that one signature; and a Sign that fails leaves Signature as
\* it was.
C8_SignIdempotent ==
    (phase = "live" /\ mlast.op = "Sign") =>
        /\ ~mlast.err =>
              /\ msg.Signature = Some(SignData(mlast.key, RSM_MarshalForSignature(msg)))
              /\ RSM_MarshalBinary(msg) =
                    RSM_MarshalForSignature(msg) \o Signature_MarshalBinary(msg.Signature[1])
        /\ (~mlast.err
              /\ prev.Signature = Some(SignData(mlast.key, RSM_MarshalForSignature(prev)))) =>
              RSM_MarshalBinary(msg) = RSM_MarshalBinary(prev)
        /\ mlast.err => msg.Signature = prev.Signature

\* a second Sign with the same key has succeeded
C8_Witness ==
    /\ phase = "live" /\ mlast.op = "Sign" /\ ~mlast.err
    /\ prev.Signature = Some(SignData(mlast.key, RSM_MarshalForSignature(prev)))
    /\ RSM_MarshalBinary(msg) = RSM_MarshalBinary(prev)

\* C9: decoding the untouched MarshalBinary of a RemoveServerMsg whose
\* ServerType is in 0..255 returns no error and an empty remainder, and the
\* decoded message IsSameAs the original, with a Signature exactly when the
\* original had one.
C9_RSMRoundTrip ==
    (phase = "decoded" /\ mdec.by = "rsm" /\ msg.kind = "rsm"
       /\ mbuf = RSM_MarshalBinary(msg) /\ msg.ServerType \in 0..255) =>
        /\ mdec.out.res = "ok"
        /\ mdec.out.newData = <<>>
        /\ RSM_IsSameAs(msg, mdec.out.m)
        /\ (mdec.out.m.Signature # None) <=> (msg.Signature # None)

\* a signed RemoveServerMsg has been encoded and decoded
C9_Witness ==
    /\ phase = "decoded" /\ mdec.by = "rsm" /\ msg.kind = "rsm"
    /\ mbuf = RSM_MarshalBinary(msg) /\ msg.ServerType \in 0..255
    /\ msg.Signature # None
    /\ mdec.out.res = "ok"

\* the type tag of the variant a decoder belongs to
TagOf(by) == IF by = "rsm" THEN RSM_Type ELSE Reject_Type

\* C10: a decoder applied to a non-empty buffer whose first byte is not its
\* variant's type tag returns an error.
C10_TagChecked ==
    (phase = "decoded" /\ mdec.by \in {"rsm", "reject"}
       /\ mbuf # <<>> /\ mbuf[1] # TagOf(mdec.by)) =>
        mdec.out.res = "err"

\* the fields every reject message carries, as the encoders write them
RejectFixedPart(m) == WriteVarString(m.Cmd) \o <<m.Code>> \o WriteVarString(m.Reason)

\* C11: a MsgReject decoded with Cmd "block" carries a Hash read from the
\* input, and one decoded with a Cmd that has no hash field ("handshake")
\* has Hash unset, by BtcDecode and by UnmarshalBinaryData alike; BtcEncode
\* and MarshalBinary write the hash for "block" and nothing after Reason for
\* "handshake".
C11_HashFieldOnlyForBlock ==
    /\ (phase = "decoded" /\ mdec.by \in {"reject", "rejectBtc"} /\ mdec.out.res = "ok") =>
          /\ mdec.out.m.Cmd = CmdBlock => mdec.out.m.Hash # None
          /\ mdec.out.m.Cmd = CmdHandshake => mdec.out.m.Hash = None
    /\ (phase = "encoded" /\ msg.kind = "reject" /\ ~mlast.err
          /\ mlast.op \in {"MarshalBinary", "BtcEncode"}) =>
          /\ (msg.Cmd = CmdBlock /\ msg.Hash # None) =>
                mbuf = RejectFixedPart(msg) \o msg.Hash[1]
          /\ msg.Cmd = CmdHandshake => mbuf = RejectFixedPart(msg)

\* C18: RemoveServerMsg.UnmarshalBinaryData returns an error, and does not
\* panic, for every truncated input: the empty buffer, the tag byte alone, a
\* buffer cut inside the timestamp or the chain id, and a buffer that ends
\* before the ServerType byte.
C18_TruncatedIsError ==
    (phase = "decoded" /\ mdec.by = "rsm" /\ mlast.op = "Truncate")
        => mdec.out.res = "err"

-----------------------------------------------------------------------------
(* Header.Length at encode time *)

\* the Header.Length field of an encoded parcel: the four bytes after the
\* total length, Network, Version and Type
LengthFieldOf(bytes) == SubSeq(bytes, 13, 16)

\* C12: the payload-length header field MarshalBinary writes equals the length
\* of the payload it writes in the same buffer, whatever assignments to
\* Payload and calls of UpdateHeader came before.
C12_LengthFieldIsPayloadLength ==
    (stage = "encoded" /\ tamper = "none") =>
        LengthFieldOf(BytesOf(data)) = BE32(Len(parcel.Payload))

-----------------------------------------------------------------------------
(* The payload ceiling *)

\* C13: on a connection that itself reports no failure, a Send of a parcel
\* whose payload is longer than MaxPayloadSize returns an error and writes
\* nothing to the connection, and a Receive of a pack whose parcel has such a
\* payload returns an error.
C13_OversizePayloadRejected ==
    /\ (wlast.op = "Send" /\ encoder /\ ~wlast.connErr
          /\ wlast.plen > MaxPayloadSize) =>
          (wlast.res = "err" /\ ~wlast.written)
    /\ (wlast.op = "Receive" /\ decoder /\ ~wlast.connErr
          /\ wlast.plen > MaxPayloadSize) =>
          wlast.res = "err"

-----------------------------------------------------------------------------
(* The State scenario: Init, the setters, validation and the role predicate *)

\* Network values of factomd.conf
CfgNetworks == {"MAIN", "TEST", "LOCAL", "CUSTOM", ""}

\* what s.DB.Get hands back: an error, or a block whose header holds a height
DBGets == {[err |-> TRUE, height |-> 0]} \cup {[err |-> FALSE, height |-> h] : h \in 0..MaxHeight}

Alive == slast.res # "panic"

StateStart ==
    /\ state = ZeroState /\ queues = NoQueues /\ pending = NoSenders /\ pushed = 0
    /\ slast = NoSCall
    /\ ParcelIdle /\ WireIdle /\ MsgIdle

\* s.Init(), called once, on a State just constructed
DoInit ==
    /\ Alive /\ ~state.made
    /\ \E network \in CfgNetworks, got \in DBGets :
          /\ state' = State_Init(state, network, got).s
          /\ slast' = [NoSCall EXCEPT !.op = "Init",
                                      !.res = State_Init(state, network, got).res,
                                      !.before = GetDBHeight(state)]
    /\ queues' = InitQueues
    /\ UNCHANGED <<pending, pushed, notState>>

\* s.SetDBHeight(h)
DoSetDBHeight ==
    /\ Alive
    /\ \E h \in 0..MaxHeight : state' = SetDBHeight(state, h)
    /\ slast' = [NoSCall EXCEPT !.op = "SetDBHeight", !.res = "ok",
                                !.before = GetDBHeight(state)]
    /\ UNCHANGED <<queues, pending, pushed, notState>>

\* s.SetCurrentDirectoryBlock(dirblk)
DoSetCurrentDirectoryBlock ==
    /\ Alive
    /\ \E h \in 0..MaxHeight : state' = SetCurrentDirectoryBlock(state, Some(h))
    /\ slast' = [NoSCall EXCEPT !.op = "SetCurrentDirectoryBlock", !.res = "ok",
                                !.before = GetDBHeight(state)]
    /\ UNCHANGED <<queues, pending, pushed, notState>>

\* m.Validate(s.GetDBHeight(), s), m a MsgReject
DoRejectValidate ==
    /\ Alive
    /\ \E cmd \in RejectCmds :
          slast' = [NoSCall EXCEPT
                      !.op = "Validate", !.res = "ok",
                      !.verdict = Reject_Validate(NewMsgReject(cmd, RejectInvalid, <<>>),
                                                  GetDBHeight(state), state),
                      !.before = GetDBHeight(state)]
    /\ UNCHANGED <<state, queues, pending, pushed, notState>>

\* m.Validate(s), m a RemoveServerMsg
DoRSMValidate ==
    /\ Alive
    /\ \E c \in ChainIDs :
          slast' = [NoSCall EXCEPT
                      !.op = "Validate", !.res = "ok",
                      !.verdict = RSM_Validate(NewRemoveServerMsg(ZeroTimestamp, c, 0)),
                      !.before = GetDBHeight(state)]
    /\ UNCHANGED <<state, queues, pending, pushed, notState>>

\* m.Leader(s), m a MsgReject, s initialized
DoRejectLeader ==
    /\ Alive /\ state.made
    /\ slast' = [NoSCall EXCEPT
                   !.op = "Leader",
                   !.res = Reject_Leader(NewMsgReject(CmdTx, RejectInvalid, <<>>), state),
                   !.before = GetDBHeight(state)]
    /\ UNCHANGED <<state, queues, pending, pushed, notState>>

StateNext ==
    \/ DoInit
    \/ DoSetDBHeight
    \/ DoSetCurrentDirectoryBlock
    \/ DoRejectValidate
    \/ DoRSMValidate
    \/ DoRejectLeader

StateSpec == StateStart /\ [][StateNext]_vars

\* C14: no operation on the State lowers the height GetDBHeight returns, and
\* message validation leaves it as it was.
C14_HeightNeverDecreases ==
    /\ slast.op # "none" => GetDBHeight(state) >= slast.before
    /\ slast.op = "Validate" => GetDBHeight(state) = slast.before

\* C17: MsgReject.Leader returns a boolean, or an explicit not-supported
\* result, in every network mode; it does not panic.
C17_LeaderNeverPanics ==
    slast.op = "Leader" => slast.res \in {"true", "false", "not supported"}

-----------------------------------------------------------------------------
(* The queue scenario: producers and consumers on the queues of a State *)

\* sends started in one run
MaxPushes == QueueCapacity + 2

\* the State after s.Init() on the LOCAL network with an empty database head
QueueStart ==
    /\ state = State_Init(ZeroState, "LOCAL", [err |-> FALSE, height |-> 0]).s
    /\ queues = InitQueues
    /\ pending = NoSenders
    /\ pushed = 0
    /\ slast = NoSCall
    /\ ParcelIdle
    /\ WireIdle
    /\ MsgIdle

\* s.XQueue() <- m, m the next message
Push ==
    /\ pushed < MaxPushes
    /\ \E q \in QueueNames :
          LET r == ChanSend(queues[q], pushed + 1)
          IN  /\ queues' = [queues EXCEPT ![q] = r.ch]
              /\ pending' = IF r.blocked
                             THEN [pending EXCEPT ![q] = Append(@, pushed + 1)]
                             ELSE pending
              /\ slast' = [NoSCall EXCEPT !.op = "Push",
                                          !.res = IF r.blocked THEN "blocked" ELSE "sent"]
    /\ pushed' = pushed + 1
    /\ UNCHANGED <<state, notState>>

\* m := <-s.XQueue()
Pop ==
    /\ \E q \in QueueNames :
          /\ queues[q].buf # <<>>
          /\ LET r == ChanRecv(queues[q], pending[q])
             IN  /\ queues' = [queues EXCEPT ![q] = r.ch]
                 /\ pending' = [pending EXCEPT ![q] = r.w]
                 /\ slast' = [NoSCall EXCEPT !.op = "Pop",
                                             !.res = IF pending[q] # <<>>
                                                     THEN "handoff" ELSE "received"]
    /\ UNCHANGED <<state, pushed, notState>>

QueueNext ==
    \/ Push
    \/ Pop

QueueSpec == QueueStart /\ [][QueueNext]_vars

\* the messages queue q holds followed by those waiting to enter it
InOrder(qs, ws, q) == qs[q].buf \o ws[q]

\* what one step may do to queue q: nothing, take in the message just sent
\* behind everything held or waiting, or give up its head
QueueStep(q) ==
    \/ InOrder(queues', pending', q) = InOrder(queues, pending, q)
    \/ /\ pushed' = pushed + 1
       /\ InOrder(queues', pending', q) = Append(InOrder(queues, pending, q), pushed')
       /\ Len(queues[q].buf) = QueueCapacity => queues'[q] = queues[q]
    \/ /\ pushed' = pushed
       /\ InOrder(queues, pending, q) # <<>>
       /\ InOrder(queues', pending', q) = Tail(InOrder(queues, pending, q))

\* C15: each of the six queues has the one fixed capacity and never holds
\* more; a push on a full queue leaves the queue as it was and waits (its
\* message is not dropped and replaces none); a message waits only while its
\* queue is full, so the pop that makes room completes exactly the push that
\* has waited longest, behind the messages already held.
C15_Backpressure ==
    /\ [](\A q \in QueueNames :
            /\ queues[q].cap = QueueCapacity
            /\ Len(queues[q].buf) <= QueueCapacity
            /\ pending[q] # <<>> => Len(queues[q].buf) = QueueCapacity)
    /\ [][/\ \A q \in QueueNames : QueueStep(q)
          /\ pushed' = pushed + 1 =>
                \E q \in QueueNames :
                   InOrder(queues', pending', q)
                      = Append(InOrder(queues, pending, q), pushed')]_vars

\* a pop on a full queue has let the waiting push complete
C15_Witness ==
    /\ slast.op = "Pop" /\ slast.res = "handoff"
    /\ \E q \in QueueNames :
          /\ Len(queues[q].buf) = QueueCapacity
          /\ queues[q].buf[QueueCapacity] = QueueCapacity + 1
          /\ pending[q] = <<>>

=============================================================================
